---- MODULE Spec2Model ----
(***************************************************************************)
(* The slash-command engine of packages/ui: the CommandAutocomplete        *)
(* component (catalog merge, availability gating, query filter, sort,      *)
(* keyboard selection) over the session store it reads, and the store's    *)
(* executeCommand with its command history.                                *)
(*                                                                         *)
(* Strings are TLA+ strings; characters are strings of length one.         *)
(***************************************************************************)
EXTENDS Integers, Sequences, FiniteSets, TLC

VARIABLES
    currentSessionId,       \* store: state.currentSessionId (NoSession = null)
    messages,               \* store: state.messages, session id -> list of message roles
    sessions,               \* store: state.sessions, session id -> has revert.messageID
    sessionActivityPhase,   \* store: state.sessionActivityPhase, session id -> phase
    searchQuery,            \* prop searchQuery
    commands,               \* React state: commands (the visible list)
    loading,                \* React state: loading
    selectedIndex,          \* React state: selectedIndex
    inflight,               \* loadCommands calls suspended at `await listCommands()`
    resolved,               \* history: the load whose result `commands` holds
    changes,                \* history: prop and store changes so far
    signal,                 \* output of the last step: onCommandSelect / onClose
    handle,                 \* the imperative handle of the last commit: the selectedIndex it holds
    commandHistory,         \* store: state.commandHistory
    executing,              \* executeCommand calls suspended at their `await`
    calls,                  \* history: the executeCommand calls that have returned
    backend,                \* history: the collaborator operations invoked so far
    handling,               \* ChatInput: executeCommand calls suspended in their handler
    toast,                  \* ChatInput: the toast.error of the last step
    composed,               \* ChatInput: the command the last step left to the custom handling
    requests,               \* opencodeApi: calls suspended at `await fetch(...)`
    replies                 \* history: the opencodeApi calls that have returned

store == <<currentSessionId, messages, sessions, sessionActivityPhase>>
dispatch == <<commandHistory, executing, calls, backend>>
chat == <<handling, toast, composed>>
network == <<requests, replies>>
component == <<searchQuery, commands, loading, selectedIndex, inflight, resolved, changes,
               signal, handle>>
vars == <<currentSessionId, messages, sessions, sessionActivityPhase, searchQuery,
          commands, loading, selectedIndex, inflight, resolved, changes, signal, handle,
          commandHistory, executing, calls, backend, handling, toast, composed, requests,
          replies>>

----------------------------------------------------------------------------
(* Bounds of the model *)

\* longest message list of a session
MaxMessages == 2
\* most changes of the searchQuery prop and of the store while the dropdown is open
MaxChanges == 1
\* most calls of executeCommand
MaxAttempts == 2
\* most calls of executeCommand with a name of the whole routing table
MaxRouted == 1
\* most calls of the opencodeApi operations
MaxRequests == 1
\* most executions of ChatInput suspended in their handler at once
MaxPending == 1

----------------------------------------------------------------------------
(* Strings: toLowerCase, includes, startsWith, localeCompare *)

UpperLetters == "ABCDEFGHIJKLMNOPQRSTUVWXYZ"
LowerLetters == "abcdefghijklmnopqrstuvwxyz"

CharAt(s, i) == SubSeq(s, i, i)

\* position of a letter in the alphabet, 0 for any other character
LetterIndex(alphabet, c) ==
    IF \E i \in 1..Len(alphabet) : CharAt(alphabet, i) = c
    THEN CHOOSE i \in 1..Len(alphabet) : CharAt(alphabet, i) = c
    ELSE 0

LowerChar(c) ==
    IF LetterIndex(UpperLetters, c) > 0
    THEN CharAt(LowerLetters, LetterIndex(UpperLetters, c))
    ELSE c

RECURSIVE ToLowerCase(_)
ToLowerCase(s) ==
    IF Len(s) = 0 THEN ""
    ELSE LowerChar(CharAt(s, 1)) \o ToLowerCase(SubSeq(s, 2, Len(s)))

\* String.prototype.includes
Includes(s, sub) ==
    \E i \in 1..(Len(s) - Len(sub) + 1) : SubSeq(s, i, i + Len(sub) - 1) = sub

\* String.prototype.startsWith
StartsWith(s, prefix) ==
    /\ Len(prefix) <= Len(s)
    /\ SubSeq(s, 1, Len(prefix)) = prefix

\* collation weight of a character at a level: 1 compares letters with case
\* ignored, 3 compares case alone (lower before upper)
CollationKey(c, level) ==
    IF level = 1 THEN LetterIndex(LowerLetters, LowerChar(c))
    ELSE IF LetterIndex(UpperLetters, c) > 0 THEN 1 ELSE 0

\* first position at which the two strings differ at the given level, 0 if none
FirstDiff(a, b, level) ==
    LET n == IF Len(a) < Len(b) THEN Len(a) ELSE Len(b)
        D == {i \in 1..n : CollationKey(CharAt(a, i), level) # CollationKey(CharAt(b, i), level)}
    IN  IF D = {} THEN 0 ELSE CHOOSE i \in D : \A j \in D : i <= j

\* String.prototype.localeCompare on names made of letters: alphabetical with
\* case ignored first, a shorter string before its extensions, and lower case
\* before upper case where the names differ in case only
LocaleCompare(a, b) ==
    LET p == FirstDiff(a, b, 1)
        t == FirstDiff(a, b, 3)
        Less(i, level) == CollationKey(CharAt(a, i), level) < CollationKey(CharAt(b, i), level)
    IN  IF p > 0 THEN (IF Less(p, 1) THEN -1 ELSE 1)
        ELSE IF Len(a) # Len(b) THEN (IF Len(a) < Len(b) THEN -1 ELSE 1)
        ELSE IF t > 0 THEN (IF Less(t, 3) THEN -1 ELSE 1)
        ELSE 0

----------------------------------------------------------------------------
(* The session store, as the component reads it *)

NoSession == "none"
Sessions == {"s1"}
Roles == {"user", "assistant"}
Phases == {"idle", "busy"}

RECURSIVE SeqsUpTo(_, _)
SeqsUpTo(S, n) ==
    IF n = 0 THEN {<<>>}
    ELSE LET shorter == SeqsUpTo(S, n - 1)
         IN  shorter \cup {Append(s, x) : s \in {t \in shorter : Len(t) = n - 1}, x \in S}

\* useSessionStore.getState(): the store as it is at the moment of the call
GetState ==
    [messages |-> messages, sessions |-> sessions,
     sessionActivityPhase |-> sessionActivityPhase]

\* every value getState() can return
StoreStates ==
    [messages : [Sessions -> SeqsUpTo(Roles, MaxMessages)],
     sessions : [Sessions -> BOOLEAN],
     sessionActivityPhase : [Sessions -> Phases]]

\* the useSessionStore selector: messageCount of the current session
MessageCount == IF currentSessionId # NoSession THEN Len(messages[currentSessionId]) ELSE 0

\* the useSessionStore selector: hasMessagesInCurrentSession
HasMessagesInCurrentSession == MessageCount > 0

----------------------------------------------------------------------------
(* Commands *)

Cmd(n, d, b) == [name |-> n, description |-> d, isBuiltIn |-> b]

\* the builtInCommands array literal of loadCommands (both branches hold the same one)
BuiltInCommands(hasMessages) ==
    (IF hasMessages THEN <<>> ELSE <<Cmd("init", "Create/update AGENTS.md file", TRUE)>>)
    \o << Cmd("summarize", "Generate a summary of the current session", TRUE),
          Cmd("revert", "Revert session to previous state", TRUE),
          Cmd("unrevert", "Undo revert operation", TRUE),
          Cmd("abort", "Interrupt current operation", TRUE),
          Cmd("undo", "Undo last action", TRUE),
          Cmd("redo", "Redo last action", TRUE),
          Cmd("edit", "Edit last message", TRUE),
          Cmd("clear", "Clear current session", TRUE),
          Cmd("compact", "Compact session history", TRUE) >>

BuiltInNames == {"init", "summarize", "revert", "unrevert", "abort", "undo", "redo",
                 "edit", "clear", "compact"}

\* what opencodeClient.listCommands() may resolve to: name and description of each
\* registered command (a description of "" is an absent one)
Api(n, d) == [name |-> n, description |-> d]
Catalogs ==
    { <<>>,
      <<Api("Redo", "Repeat the review")>>,
      <<Api("init", "Project setup"), Api("abort", ""), Api("init", "Set up again")>> }

\* an outcome of `await opencodeClient.listCommands()`: resolved with a catalog, or rejected
FetchOutcomes ==
    {[ok |-> TRUE, apiCommands |-> c] : c \in Catalogs} \cup {[ok |-> FALSE, apiCommands |-> <<>>]}

\* the values of searchQuery the parent passes
Queries == {"", "Re"}

\* apiCommands.map(cmd => ({..., isBuiltIn: false}))
CustomCommands(apiCommands) ==
    [i \in 1..Len(apiCommands) |-> Cmd(apiCommands[i].name, apiCommands[i].description, FALSE)]

\* every command a list can hold
AllCommands ==
    {BuiltInCommands(FALSE)[i] : i \in 1..Len(BuiltInCommands(FALSE))}
    \cup UNION {{CustomCommands(c)[i] : i \in 1..Len(c)} : c \in Catalogs}

\* the closure a render hands to isCommandAvailable and loadCommands
Closure(q, has, sid) ==
    [searchQuery |-> q, hasMessagesInCurrentSession |-> has, currentSessionId |-> sid]

\* every closure a render can hand out
Closures ==
    {Closure(q, has, sid) : q \in Queries, has \in BOOLEAN, sid \in Sessions \cup {NoSession}}

\* the closure of the current render
Rendered == Closure(searchQuery, HasMessagesInCurrentSession, currentSessionId)

\* isCommandAvailable with `revert`/`undo` offered from the first message on
IsCommandAvailableFromOne(state, cl, command) ==
    IF ~command.isBuiltIn THEN TRUE
    ELSE
      LET sid == cl.currentSessionId
          sessionMessages == IF sid # NoSession THEN state.messages[sid] ELSE <<>>
          n == command.name
      IN  CASE n = "init" -> ~cl.hasMessagesInCurrentSession
            [] n = "summarize" -> cl.hasMessagesInCurrentSession
            [] n \in {"revert", "undo"} -> Len(sessionMessages) > 0
            [] n \in {"unrevert", "redo"} -> sid # NoSession /\ state.sessions[sid]
            [] n = "abort" -> sid # NoSession /\ state.sessionActivityPhase[sid] = "busy"
            [] n = "edit" ->
                 /\ Len(sessionMessages) > 0
                 /\ sessionMessages[Len(sessionMessages)] = "user"
            [] n \in {"clear", "compact"} -> Len(sessionMessages) > 0
            [] OTHER -> TRUE

\* isCommandAvailable with `edit` offered whatever the role of the last message
IsCommandAvailableAnyRole(state, cl, command) ==
    IF ~command.isBuiltIn THEN TRUE
    ELSE
      LET sid == cl.currentSessionId
          sessionMessages == IF sid # NoSession THEN state.messages[sid] ELSE <<>>
          n == command.name
      IN  CASE n = "init" -> ~cl.hasMessagesInCurrentSession
            [] n = "summarize" -> cl.hasMessagesInCurrentSession
            [] n \in {"revert", "undo"} -> Len(sessionMessages) > 1
            [] n \in {"unrevert", "redo"} -> sid # NoSession /\ state.sessions[sid]
            [] n = "abort" -> sid # NoSession /\ state.sessionActivityPhase[sid] = "busy"
            [] n = "edit" -> Len(sessionMessages) > 0
            [] n \in {"clear", "compact"} -> Len(sessionMessages) > 0
            [] OTHER -> TRUE

\* isCommandAvailable with `undo` in a case of its own, offered from the first
\* message on
IsCommandAvailableUndoApart(state, cl, command) ==
    IF ~command.isBuiltIn THEN TRUE
    ELSE
      LET sid == cl.currentSessionId
          sessionMessages == IF sid # NoSession THEN state.messages[sid] ELSE <<>>
          n == command.name
      IN  CASE n = "init" -> ~cl.hasMessagesInCurrentSession
            [] n = "summarize" -> cl.hasMessagesInCurrentSession
            [] n = "revert" -> Len(sessionMessages) > 1
            [] n = "undo" -> Len(sessionMessages) > 0
            [] n \in {"unrevert", "redo"} -> sid # NoSession /\ state.sessions[sid]
            [] n = "abort" -> sid # NoSession /\ state.sessionActivityPhase[sid] = "busy"
            [] n = "edit" ->
                 /\ Len(sessionMessages) > 0
                 /\ sessionMessages[Len(sessionMessages)] = "user"
            [] n \in {"clear", "compact"} -> Len(sessionMessages) > 0
            [] OTHER -> TRUE

\* isCommandAvailable without its `currentSessionId ?` guards: with no current
\* session it reads the state of a session of the store
IsCommandAvailableUnguarded(state, cl, command) ==
    IF ~command.isBuiltIn THEN TRUE
    ELSE
      LET sid == IF cl.currentSessionId # NoSession THEN cl.currentSessionId
                 ELSE CHOOSE id \in Sessions : TRUE
          sessionMessages == state.messages[sid]
          n == command.name
      IN  CASE n = "init" -> ~cl.hasMessagesInCurrentSession
            [] n = "summarize" -> cl.hasMessagesInCurrentSession
            [] n \in {"revert", "undo"} -> Len(sessionMessages) > 1
            [] n \in {"unrevert", "redo"} -> state.sessions[sid]
            [] n = "abort" -> state.sessionActivityPhase[sid] = "busy"
            [] n = "edit" ->
                 /\ Len(sessionMessages) > 0
                 /\ sessionMessages[Len(sessionMessages)] = "user"
            [] n \in {"clear", "compact"} -> Len(sessionMessages) > 0
            [] OTHER -> TRUE

\* isCommandAvailable of the render `cl`; `state` is what getState() returns
\* when it is called
IsCommandAvailable(state, cl, command) ==
    IF ~command.isBuiltIn THEN TRUE
    ELSE
      LET sid == cl.currentSessionId
          sessionMessages == IF sid # NoSession THEN state.messages[sid] ELSE <<>>
          hasSession == sid # NoSession /\ sid \in DOMAIN state.sessions
          n == command.name
      IN  CASE n = "init" -> ~cl.hasMessagesInCurrentSession
            [] n = "summarize" -> cl.hasMessagesInCurrentSession
            [] n \in {"revert", "undo"} -> Len(sessionMessages) > 1
            [] n \in {"unrevert", "redo"} -> hasSession /\ state.sessions[sid]
            [] n = "abort" ->
                 /\ sid \in DOMAIN state.sessionActivityPhase
                 /\ state.sessionActivityPhase[sid] = "busy"
            [] n = "edit" ->
                 /\ Len(sessionMessages) > 0
                 /\ sessionMessages[Len(sessionMessages)] = "user"
            [] n \in {"clear", "compact"} -> Len(sessionMessages) > 0
            [] OTHER -> TRUE

\* a list in place of the Map: every set appends
MapSetAppendOnly(map, cmd) == Append(map, cmd)

\* commandMap.set(cmd.name, cmd) on a Map kept as its values in insertion order
MapSet(map, cmd) ==
    IF \E i \in 1..Len(map) : map[i].name = cmd.name
    THEN [i \in 1..Len(map) |-> IF map[i].name = cmd.name THEN cmd ELSE map[i]]
    ELSE Append(map, cmd)

RECURSIVE MapSetAll(_, _)
MapSetAll(map, list) ==
    IF list = <<>> THEN map ELSE MapSetAll(MapSet(map, Head(list)), Tail(list))

\* allCommands: built-ins first, then the custom commands over them
MergeCommands(builtIns, customs) == MapSetAll(MapSetAll(<<>>, builtIns), customs)

\* the filter predicate with the description test cut to `cmd.description`
MatchesQueryAnyDescription(q, cmd) ==
    \/ Includes(ToLowerCase(cmd.name), ToLowerCase(q))
    \/ cmd.description # ""

\* the predicate of the searchQuery filter
MatchesQuery(q, cmd) ==
    \/ Includes(ToLowerCase(cmd.name), ToLowerCase(q))
    \/ (cmd.description # "" /\ Includes(ToLowerCase(cmd.description), ToLowerCase(q)))

\* MatchesQuery, evaluated once for each query and command
MatchesQueryMemo == [q \in Queries, cmd \in AllCommands |-> MatchesQuery(q, cmd)]

\* the filter chain: query, init exception, availability
FilterCommands(state, cl, list) ==
    LET allowInitCommand == ~cl.hasMessagesInCurrentSession
        ByQuery(cmd) == MatchesQueryMemo[cl.searchQuery, cmd]
        ByInit(cmd) == allowInitCommand \/ cmd.name # "init"
        ByAvailable(cmd) == IsCommandAvailable(state, cl, cmd)
        queried == IF cl.searchQuery # "" THEN SelectSeq(list, ByQuery) ELSE list
    IN  SelectSeq(SelectSeq(queried, ByInit), ByAvailable)

\* the comparator of filtered.sort
CompareCommands(q, a, b) ==
    LET aStartsWith == StartsWith(ToLowerCase(a.name), ToLowerCase(q))
        bStartsWith == StartsWith(ToLowerCase(b.name), ToLowerCase(q))
    IN  IF aStartsWith /\ ~bStartsWith THEN -1
        ELSE IF ~aStartsWith /\ bStartsWith THEN 1
        ELSE LocaleCompare(a.name, b.name)

\* CompareCommands, evaluated once for each query and pair of commands
CompareCommandsMemo ==
    [q \in Queries, a \in AllCommands, b \in AllCommands |-> CompareCommands(q, a, b)]

RECURSIVE InsertSorted(_, _, _)
InsertSorted(q, x, sorted) ==
    IF sorted = <<>> THEN <<x>>
    ELSE IF CompareCommandsMemo[q, x, Head(sorted)] < 0 THEN <<x>> \o sorted
    ELSE <<Head(sorted)>> \o InsertSorted(q, x, Tail(sorted))

\* Array.prototype.sort with the comparator (stable)
RECURSIVE SortCommands(_, _)
SortCommands(q, list) ==
    IF list = <<>> THEN <<>>
    ELSE InsertSorted(q, list[Len(list)], SortCommands(q, SubSeq(list, 1, Len(list) - 1)))

\* the try branch of loadCommands after the await: merge, filter, sort
TryBranch(state, cl, apiCommands) ==
    LET allCommands == MergeCommands(BuiltInCommands(cl.hasMessagesInCurrentSession),
                                     CustomCommands(apiCommands))
    IN  SortCommands(cl.searchQuery, FilterCommands(state, cl, allCommands))

\* the catch branch surfacing an empty list
CatchBranchEmpty(state, cl) == <<>>

\* the catch branch of loadCommands: built-ins only, filtered
CatchBranch(state, cl) ==
    FilterCommands(state, cl, BuiltInCommands(cl.hasMessagesInCurrentSession))

\* the list loadCommands hands to setCommands
LoadResult(state, cl, outcome) ==
    IF outcome.ok THEN TryBranch(state, cl, outcome.apiCommands) ELSE CatchBranch(state, cl)

\* a function as an explicit table of its values
Table(f) == f @@ <<>>

\* LoadResult, evaluated once for each closure, fetch outcome and store state
LoadResultMemo ==
    Table([cl \in Closures |->
        Table([outcome \in FetchOutcomes |->
            Table([state \in StoreStates |-> LoadResult(state, cl, outcome)])])])

----------------------------------------------------------------------------
(* The component *)

NoCommand == Cmd("", "", FALSE)
\* no toast shown
NoToast == ""
NoSignal == [type |-> "none", command |-> NoCommand]
\* props.onClose()
CloseRequested == [type |-> "close", command |-> NoCommand]
\* props.onCommandSelect(command)
CommandSelected(command) == [type |-> "select", command |-> command]

\* before any load has completed
NothingResolved ==
    [done |-> FALSE, outcome |-> [ok |-> FALSE, apiCommands |-> <<>>], latest |-> FALSE,
     moved |-> FALSE]

\* the dependency array of the loadCommands effect; isCommandAvailable changes
\* identity with currentSessionId and hasMessagesInCurrentSession
EffectDeps == <<searchQuery, HasMessagesInCurrentSession, currentSessionId>>

\* a % b of JavaScript (the sign of the dividend)
JsRem(a, b) == IF a >= 0 THEN a % b ELSE 0 - ((0 - a) % b)

Init ==
    /\ currentSessionId \in Sessions \cup {NoSession}
    /\ messages \in [Sessions -> SeqsUpTo(Roles, MaxMessages)]
    /\ sessions \in [Sessions -> BOOLEAN]
    /\ sessionActivityPhase \in [Sessions -> Phases]
    /\ searchQuery \in Queries
    /\ commands = <<>>
    /\ loading = TRUE
    /\ selectedIndex = 0
    /\ inflight = <<[cl |-> Rendered, latest |-> TRUE]>>
    /\ resolved = NothingResolved
    /\ changes = 0
    /\ signal = NoSignal
    /\ handle = [selectedIndex |-> 0]
    /\ commandHistory = <<>>
    /\ executing = <<>>
    /\ calls = <<>>
    /\ backend = <<>>
    /\ handling = <<>>
    /\ toast = NoToast
    /\ composed = NoCommand
    /\ requests = <<>>
    /\ replies = <<>>

\* the commit of a render: useImperativeHandle builds the handle anew over the
\* selectedIndex of that render (its list is `commands`: every step that sets
\* the list commits its render)
CommitHandle == handle' = [selectedIndex |-> selectedIndex']

\* a prop or store change within the budget
CountChange == changes < MaxChanges /\ changes' = changes + 1

\* the render after a prop or store change: the loadCommands effect runs again
\* when one of its dependencies changed, up to its `await`
RunLoadEffect ==
    IF EffectDeps' # EffectDeps
    THEN /\ inflight' = Append([i \in 1..Len(inflight) |-> [inflight[i] EXCEPT !.latest = FALSE]],
                               [cl |-> Rendered', latest |-> TRUE])
         /\ loading' = TRUE
         /\ resolved' = [resolved EXCEPT !.latest = FALSE]
    ELSE UNCHANGED <<inflight, loading, resolved>>

\* the parent passes another searchQuery
SetSearchQuery(q) ==
    /\ q # searchQuery
    /\ searchQuery' = q
    /\ UNCHANGED <<dispatch, chat, network, store, commands, selectedIndex, handle>>
    /\ signal' = NoSignal
    /\ CountChange
    /\ RunLoadEffect

\* the store gets a message of the session
AppendMessage(sid, role) ==
    /\ Len(messages[sid]) < MaxMessages
    /\ messages' = [messages EXCEPT ![sid] = Append(@, role)]
    /\ UNCHANGED <<dispatch, chat, network, currentSessionId, sessions, sessionActivityPhase, searchQuery,
                   commands, selectedIndex, handle>>
    /\ signal' = NoSignal
    /\ CountChange
    /\ RunLoadEffect

\* the store drops the last message of the session
RemoveMessage(sid) ==
    /\ Len(messages[sid]) > 0
    /\ messages' = [messages EXCEPT ![sid] = SubSeq(@, 1, Len(@) - 1)]
    /\ UNCHANGED <<dispatch, chat, network, currentSessionId, sessions, sessionActivityPhase, searchQuery,
                   commands, selectedIndex, handle>>
    /\ signal' = NoSignal
    /\ CountChange
    /\ RunLoadEffect

\* the store sets or drops session.revert
SetRevert(sid, pending) ==
    /\ sessions[sid] # pending
    /\ sessions' = [sessions EXCEPT ![sid] = pending]
    /\ UNCHANGED <<dispatch, chat, network, currentSessionId, messages, sessionActivityPhase, searchQuery,
                   commands, selectedIndex, handle>>
    /\ signal' = NoSignal
    /\ CountChange
    /\ RunLoadEffect

\* the store moves the session's activity phase
SetActivityPhase(sid, phase) ==
    /\ sessionActivityPhase[sid] # phase
    /\ sessionActivityPhase' = [sessionActivityPhase EXCEPT ![sid] = phase]
    /\ UNCHANGED <<dispatch, chat, network, currentSessionId, messages, sessions, searchQuery,
                   commands, selectedIndex, handle>>
    /\ signal' = NoSignal
    /\ CountChange
    /\ RunLoadEffect

\* the store switches the current session
SetCurrentSession(sid) ==
    /\ currentSessionId # sid
    /\ currentSessionId' = sid
    /\ UNCHANGED <<dispatch, chat, network, messages, sessions, sessionActivityPhase, searchQuery,
                   commands, selectedIndex, handle>>
    /\ signal' = NoSignal
    /\ CountChange
    /\ RunLoadEffect

\* the [commands] effect leaving the selection where it was
KeepSelectedIndex(prev) == prev

\* the [commands] effect: setSelectedIndex(0)
ResetSelectedIndex(prev) == 0

\* a load that merges into the list already shown: entries of the previous list
\* its own resolution does not hold stay behind it
CompleteLoadMerging(i, outcome) ==
    /\ i \in 1..Len(inflight)
    /\ commands' = LET result == LoadResultMemo[inflight[i].cl][outcome][GetState]
                   IN  result \o SelectSeq(commands,
                                           LAMBDA c : \A k \in 1..Len(result) : result[k] # c)
    /\ loading' = FALSE
    /\ selectedIndex' = ResetSelectedIndex(selectedIndex)
    /\ inflight' = [j \in 1..(Len(inflight) - 1) |-> IF j < i THEN inflight[j] ELSE inflight[j + 1]]
    /\ resolved' = [done |-> TRUE, outcome |-> outcome, latest |-> inflight[i].latest,
                    moved |-> selectedIndex # 0]
    /\ signal' = NoSignal
    /\ UNCHANGED <<dispatch, chat, network, store, searchQuery, changes>>
    /\ CommitHandle

\* loadCommands number i resumes after its await with `outcome`: setCommands,
\* setLoading(false), then the [commands] effect resets the selection
\* (resolved.moved remembers whether another item than the first was selected)
CompleteLoad(i, outcome) ==
    /\ i \in 1..Len(inflight)
    /\ commands' = LoadResultMemo[inflight[i].cl][outcome][GetState]
    /\ loading' = FALSE
    /\ selectedIndex' = ResetSelectedIndex(selectedIndex)
    /\ inflight' = [j \in 1..(Len(inflight) - 1) |-> IF j < i THEN inflight[j] ELSE inflight[j + 1]]
    /\ resolved' = [done |-> TRUE, outcome |-> outcome, latest |-> inflight[i].latest,
                    moved |-> selectedIndex # 0]
    /\ signal' = NoSignal
    /\ UNCHANGED <<dispatch, chat, network, store, searchQuery, changes>>
    /\ CommitHandle

Keys == {"Escape", "ArrowDown", "ArrowUp", "Enter", "Tab", "a"}

\* the ArrowDown updater stopping at the last item
ArrowDownClamped(prev, total) == IF prev + 1 < total THEN prev + 1 ELSE total - 1

\* the ArrowDown updater
ArrowDownIndex(prev, total) == JsRem(prev + 1, total)

\* the ArrowUp updater stopping at the first item
ArrowUpClamped(prev, total) == IF prev > 0 THEN prev - 1 ELSE 0

\* the ArrowUp updater without `+ total`
ArrowUpUnwrapped(prev, total) == JsRem(prev - 1, total)

\* the ArrowUp updater
ArrowUpIndex(prev, total) == JsRem(prev - 1 + total, total)

\* safeIndex as `selectedIndex % total` alone
SafeIndexRemainderOnly(index, total) == JsRem(index, total)

\* safeIndex of Enter/Tab
SafeIndex(index, total) == JsRem(JsRem(index, total) + total, total)

\* handleKeyDown with Enter/Tab tested before the `total === 0` guard and
\* calling onCommandSelect without `if (command)`
HandleKeyDownConfirmsEmpty(key) ==
    LET total == Len(commands)
    IN  /\ UNCHANGED <<dispatch, chat, network, store, searchQuery, commands, loading, inflight,
                     resolved, changes>>
        /\ IF key = "Escape"
           THEN signal' = CloseRequested /\ UNCHANGED selectedIndex
           ELSE IF key \in {"Enter", "Tab"}
           THEN /\ signal' = IF total = 0 THEN CommandSelected(NoCommand)
                              ELSE CommandSelected(commands[SafeIndex(selectedIndex, total) + 1])
                /\ UNCHANGED selectedIndex
           ELSE IF total = 0
           THEN signal' = NoSignal /\ UNCHANGED selectedIndex
           ELSE IF key = "ArrowDown"
           THEN signal' = NoSignal /\ selectedIndex' = ArrowDownIndex(selectedIndex, total)
           ELSE IF key = "ArrowUp"
           THEN signal' = NoSignal /\ selectedIndex' = ArrowUpIndex(selectedIndex, total)
           ELSE signal' = NoSignal /\ UNCHANGED selectedIndex
        /\ CommitHandle

\* handleKeyDown with the `total === 0` guard before the Escape test
HandleKeyDownGuardFirst(key) ==
    LET total == Len(commands)
    IN  /\ UNCHANGED <<dispatch, chat, network, store, searchQuery, commands, loading, inflight,
                     resolved, changes>>
        /\ IF total = 0
           THEN signal' = NoSignal /\ UNCHANGED selectedIndex
           ELSE IF key = "Escape"
           THEN signal' = CloseRequested /\ UNCHANGED selectedIndex
           ELSE IF key = "ArrowDown"
           THEN signal' = NoSignal /\ selectedIndex' = ArrowDownIndex(selectedIndex, total)
           ELSE IF key = "ArrowUp"
           THEN signal' = NoSignal /\ selectedIndex' = ArrowUpIndex(selectedIndex, total)
           ELSE IF key \in {"Enter", "Tab"}
           THEN /\ signal' = CommandSelected(commands[SafeIndex(selectedIndex, total) + 1])
                /\ UNCHANGED selectedIndex
           ELSE signal' = NoSignal /\ UNCHANGED selectedIndex
        /\ CommitHandle

\* handleKeyDown whose Enter/Tab branch also puts the selection back on the
\* first item
HandleKeyDownConfirmResets(key) ==
    LET total == Len(commands)
    IN  /\ UNCHANGED <<dispatch, chat, network, store, searchQuery, commands, loading, inflight,
                     resolved, changes>>
        /\ IF key = "Escape"
           THEN signal' = CloseRequested /\ UNCHANGED selectedIndex
           ELSE IF total = 0
           THEN signal' = NoSignal /\ UNCHANGED selectedIndex
           ELSE IF key = "ArrowDown"
           THEN signal' = NoSignal /\ selectedIndex' = ArrowDownIndex(selectedIndex, total)
           ELSE IF key = "ArrowUp"
           THEN signal' = NoSignal /\ selectedIndex' = ArrowUpIndex(selectedIndex, total)
           ELSE IF key \in {"Enter", "Tab"}
           THEN /\ signal' = CommandSelected(commands[SafeIndex(selectedIndex, total) + 1])
                /\ selectedIndex' = 0
           ELSE signal' = NoSignal /\ UNCHANGED selectedIndex
        /\ CommitHandle

\* handleKeyDown(key) as far as the component goes: its state and the callback
\* it calls
KeyDown(key) ==
    LET total == Len(commands)
    IN  /\ UNCHANGED <<store, searchQuery, commands, loading, inflight, resolved, changes>>
        /\ IF key = "Escape"
           THEN signal' = CloseRequested /\ UNCHANGED selectedIndex
           ELSE IF total = 0
           THEN signal' = NoSignal /\ UNCHANGED selectedIndex
           ELSE IF key = "ArrowDown"
           THEN signal' = NoSignal /\ selectedIndex' = ArrowDownIndex(selectedIndex, total)
           ELSE IF key = "ArrowUp"
           THEN signal' = NoSignal /\ selectedIndex' = ArrowUpIndex(selectedIndex, total)
           ELSE IF key \in {"Enter", "Tab"}
           THEN /\ signal' = CommandSelected(commands[SafeIndex(selectedIndex, total) + 1])
                /\ UNCHANGED selectedIndex
           ELSE signal' = NoSignal /\ UNCHANGED selectedIndex
        /\ CommitHandle

\* handleKeyDown(key), the callbacks left to the parent
HandleKeyDown(key) == KeyDown(key) /\ UNCHANGED <<dispatch, chat, network>>

\* handleKeyDown(key) called on the handle the parent holds, the render it
\* schedules not yet committed: `selectedIndex` is the one of the handle's
\* closure, the setSelectedIndex updaters run over the state the pending
\* updates have produced
HandleKeyDownOnHandle(key) ==
    LET total == Len(commands)
    IN  /\ UNCHANGED <<dispatch, chat, network, store, searchQuery, commands, loading, inflight,
                     resolved, changes, handle>>
        /\ IF key = "Escape"
           THEN signal' = CloseRequested /\ UNCHANGED selectedIndex
           ELSE IF total = 0
           THEN signal' = NoSignal /\ UNCHANGED selectedIndex
           ELSE IF key = "ArrowDown"
           THEN signal' = NoSignal /\ selectedIndex' = ArrowDownIndex(selectedIndex, total)
           ELSE IF key = "ArrowUp"
           THEN signal' = NoSignal /\ selectedIndex' = ArrowUpIndex(selectedIndex, total)
           ELSE IF key \in {"Enter", "Tab"}
           THEN /\ signal' = CommandSelected(
                                commands[SafeIndex(handle.selectedIndex, total) + 1])
                /\ UNCHANGED selectedIndex
           ELSE signal' = NoSignal /\ UNCHANGED selectedIndex

\* React commits the render the state updates scheduled
Commit ==
    /\ handle # [selectedIndex |-> selectedIndex]
    /\ signal' = NoSignal
    /\ UNCHANGED <<dispatch, chat, network, store, searchQuery, commands, loading,
                   selectedIndex, inflight, resolved, changes>>
    /\ CommitHandle

\* onMouseEnter of item `index` (items are rendered only while not loading)
MouseEnter(index) ==
    /\ ~loading
    /\ index \in 0..(Len(commands) - 1)
    /\ selectedIndex' = index
    /\ signal' = NoSignal
    /\ UNCHANGED <<dispatch, chat, network, store, searchQuery, commands, loading, inflight,
                     resolved, changes>>
    /\ CommitHandle

----------------------------------------------------------------------------
(* The dispatcher: useSessionStore.executeCommand and the command history *)

\* the command names executeCommand is called with
ExecutableNames == {"revert", "unrevert"}

\* the messages of the errors a delegated call rejects with
ErrorMessages == {"HTTP 500: Internal Server Error"}

\* an outcome of the awaited delegated call: resolved, or rejected with an error
CallOutcomes ==
    {[ok |-> TRUE, message |-> ""]} \cup {[ok |-> FALSE, message |-> m] : m \in ErrorMessages}

\* no message: what getLastMessageId returns for a session without messages
NoMessage == 0

\* getLastMessageId(sessionId): the last message of the session, named by its
\* position, NoMessage when the session has none
GetLastMessageId(state, sid) == Len(state.messages[sid])

\* the last message of the user, NoMessage when the session has none
GetLastUserMessageId(state, sid) ==
    LET own == {k \in 1..Len(state.messages[sid]) : state.messages[sid][k] = "user"}
    IN  IF own = {} THEN NoMessage ELSE CHOOSE k \in own : \A j \in own : j <= k

\* the cases behind `// ... other commands`, by the routing table: the call
\* the case awaits, "none" for a name without a case
ElidedOperation(name) ==
    CASE name = "undo" -> "revertToMessage"
      [] name = "redo" -> "unrevertSession"
      [] name = "abort" -> "abortSession"
      [] name = "edit" -> "editMessage"
      [] name = "clear" -> "clearSession"
      [] name = "compact" -> "compactSession"
      [] name = "init" -> "init"
      [] name = "summarize" -> "summarize"
      [] OTHER -> "none"

\* the call a case of the switch awaits
Operation(name) ==
    CASE name = "revert" -> "revertToMessage"
      [] name = "unrevert" -> "unrevertSession"
      [] OTHER -> ElidedOperation(name)

\* the message argument of the call: getLastMessageId(currentSessionId) for
\* revertToMessage, the user's last message for editMessage, none otherwise
TargetMessage(state, sid, name) ==
    CASE Operation(name) = "revertToMessage" -> GetLastMessageId(state, sid)
      [] Operation(name) = "editMessage" -> GetLastUserMessageId(state, sid)
      [] OTHER -> NoMessage

\* what a case behind `// ... other commands` throws before it awaits a
\* call, "" when it throws nothing
ElidedThrow(state, sid, name) ==
    IF ElidedOperation(name) = "none" THEN "UnknownCommand"
    ELSE IF name = "edit" /\ GetLastUserMessageId(state, sid) = NoMessage THEN "NoEditableMessage"
    ELSE ""

\* a switch that throws nothing: a name without a case falls through it
ThrownBeforeCallNever(state, sid, name) == ""

\* what the switch throws before it awaits a call: the `revert` and `unrevert`
\* cases throw nothing
ThrownBeforeCall(state, sid, name) ==
    IF name \in {"revert", "unrevert"} THEN "" ELSE ElidedThrow(state, sid, name)

\* a call of a collaborator operation, made by executeCommand number `by`
Invocation(by, state, sid, name) ==
    [by |-> by, operation |-> Operation(name), sessionId |-> sid,
     target |-> TargetMessage(state, sid, name)]

\* the values Date.now() can return: not below the timestamp of the last entry
Timestamps(history) ==
    LET last == IF history = <<>> THEN 0 ELSE history[Len(history)].timestamp
    IN  {last, last + 1}

\* an element of commandHistory
HistoryEntry(name, timestamp, success) ==
    [command |-> name, timestamp |-> timestamp, success |-> success]

\* the entry put before the others
PrependEntry(history, entry) == <<entry>> \o history

\* the entry put in the place of the last one
ReplaceLastEntry(history, entry) ==
    IF history = <<>> THEN <<entry>> ELSE [history EXCEPT ![Len(history)] = entry]

\* [...state.commandHistory, entry]
AppendEntry(history, entry) == Append(history, entry)

\* the calls of executeCommand so far
Attempts == Len(calls) + Len(executing)

\* a call of executeCommand that has returned: `dispatched` tells whether it
\* reached its try block, `threw` and `message` what the caller got, `others`
\* how many other calls were suspended when it returned
Returned(id, name, dispatched, threw, message, others) ==
    [id |-> id, command |-> name, dispatched |-> dispatched, threw |-> threw,
     message |-> message, others |-> others]

\* executeCommand(command) up to its `await`: without a current session it
\* throws before the try block; a case that throws is caught, recorded and
\* thrown on; any other case makes its call and awaits it
ExecuteCommand(name) ==
    /\ Attempts < MaxAttempts
    /\ IF currentSessionId = NoSession
       THEN /\ calls' = Append(calls, Returned(Attempts + 1, name, FALSE, TRUE,
                                               "No active session", Len(executing)))
            /\ UNCHANGED <<commandHistory, executing, backend>>
       ELSE IF ThrownBeforeCall(GetState, currentSessionId, name) # ""
       THEN /\ \E timestamp \in Timestamps(commandHistory) :
                   commandHistory' = AppendEntry(commandHistory,
                                                 HistoryEntry(name, timestamp, FALSE))
            /\ calls' = Append(calls, Returned(Attempts + 1, name, TRUE, TRUE,
                                               ThrownBeforeCall(GetState, currentSessionId, name),
                                               Len(executing)))
            /\ UNCHANGED <<executing, backend>>
       ELSE /\ executing' = Append(executing,
                                   [id |-> Attempts + 1, command |-> name,
                                    sessionId |-> currentSessionId,
                                    operation |-> Operation(name)])
            /\ backend' = Append(backend,
                                 Invocation(Attempts + 1, GetState, currentSessionId, name))
            /\ UNCHANGED <<commandHistory, calls>>
    /\ UNCHANGED <<store, component, chat, network>>

\* executeCommand making its call once more when the call is rejected for the
\* first time
CompleteExecuteCommandRetrying(i, outcome, timestamp) ==
    /\ i \in 1..Len(executing)
    /\ timestamp \in Timestamps(commandHistory)
    /\ IF ~outcome.ok /\ Cardinality({k \in 1..Len(backend) : backend[k].by = executing[i].id}) = 1
       THEN /\ backend' = Append(backend,
                                 Invocation(executing[i].id, GetState, executing[i].sessionId,
                                            executing[i].command))
            /\ UNCHANGED <<commandHistory, calls, executing>>
       ELSE /\ commandHistory' = AppendEntry(commandHistory,
                                             HistoryEntry(executing[i].command, timestamp,
                                                          outcome.ok))
            /\ calls' = Append(calls, Returned(executing[i].id, executing[i].command, TRUE,
                                               ~outcome.ok, outcome.message,
                                               Len(executing) - 1))
            /\ executing' = [j \in 1..(Len(executing) - 1) |->
                                IF j < i THEN executing[j] ELSE executing[j + 1]]
            /\ UNCHANGED backend
    /\ UNCHANGED <<store, component, chat, network>>

\* executeCommand number i resumes after its `await` with `outcome`: the entry
\* is appended in the try block or in the catch block, which throws the error on
CompleteExecuteCommand(i, outcome, timestamp) ==
    /\ i \in 1..Len(executing)
    /\ timestamp \in Timestamps(commandHistory)
    /\ commandHistory' = AppendEntry(commandHistory,
                                     HistoryEntry(executing[i].command, timestamp, outcome.ok))
    /\ calls' = Append(calls, Returned(executing[i].id, executing[i].command, TRUE,
                                       ~outcome.ok, outcome.message, Len(executing) - 1))
    /\ executing' = [j \in 1..(Len(executing) - 1) |->
                        IF j < i THEN executing[j] ELSE executing[j + 1]]
    /\ UNCHANGED <<backend, store, component, chat, network>>

\* the dispatcher alone: calls of executeCommand and their completions
NextDispatch ==
    \/ \E name \in ExecutableNames : ExecuteCommand(name)
    \/ \E i \in 1..Len(executing), outcome \in CallOutcomes, timestamp \in 0..MaxAttempts :
          CompleteExecuteCommand(i, outcome, timestamp)

SpecDispatch == Init /\ [][NextDispatch]_vars

\* the names of the routing table and `first`, a name without a case
RoutedNames == {"revert", "undo", "unrevert", "redo", "abort", "edit", "clear", "compact",
                "init", "summarize", "first"}

\* the dispatcher over every name: MaxRouted calls of executeCommand
NextRoute ==
    \/ \E name \in RoutedNames : Attempts < MaxRouted /\ ExecuteCommand(name)
    \/ \E i \in 1..Len(executing), outcome \in CallOutcomes, timestamp \in 0..MaxAttempts :
          CompleteExecuteCommand(i, outcome, timestamp)

SpecRoute == Init /\ [][NextRoute]_vars

----------------------------------------------------------------------------
(* ChatInput: handleCommandSelect and its executeCommand *)

\* the builtInCommands array of handleCommandSelect
ChatInputBuiltInCommands ==
    {"revert", "unrevert", "abort", "undo", "redo", "edit", "clear", "compact"}

\* the text of the toast of the catch block
FailedToExecute(name, message) == "Failed to execute " \o name \o ": " \o message

\* what a handler throws before it awaits anything: handleRevertCommand
\* without a last message; "" when it throws nothing
HandlerThrow(state, sid, name) ==
    IF name = "revert" /\ GetLastMessageId(state, sid) = NoMessage
    THEN "No messages to revert to"
    ELSE ""

\* ChatInput.executeCommand(command) up to the `await` of its handler
ChatInputExecuteCommand(command) ==
    /\ composed' = NoCommand
    /\ IF currentSessionId = NoSession
       THEN toast' = "No active session" /\ UNCHANGED handling
       ELSE IF HandlerThrow(GetState, currentSessionId, command.name) # ""
       THEN /\ toast' = FailedToExecute(command.name,
                                        HandlerThrow(GetState, currentSessionId, command.name))
            /\ UNCHANGED handling
       ELSE /\ Len(handling) < MaxPending
            /\ handling' = Append(handling, [command |-> command.name,
                                             sessionId |-> currentSessionId])
            /\ toast' = NoToast

\* handleCommandSelect(command): a name of its array goes to executeCommand,
\* any other command to the custom command handling
HandleCommandSelect(command) ==
    IF command.name \in ChatInputBuiltInCommands
    THEN ChatInputExecuteCommand(command)
    ELSE composed' = command /\ toast' = NoToast /\ UNCHANGED handling

\* handleKeyDown(key) with handleCommandSelect as onCommandSelect: the callback
\* runs up to its first `await` inside the call
KeyDownInChatInput(key) ==
    /\ KeyDown(key)
    /\ IF signal'.type = "select"
       THEN HandleCommandSelect(signal'.command)
       ELSE toast' = NoToast /\ composed' = NoCommand /\ UNCHANGED handling
    /\ UNCHANGED <<dispatch, network>>

\* a rejected handler ending the engine: the list is dropped
CompleteHandlerFatal(i, outcome) ==
    /\ i \in 1..Len(handling)
    /\ handling' = [j \in 1..(Len(handling) - 1) |->
                       IF j < i THEN handling[j] ELSE handling[j + 1]]
    /\ toast' = IF outcome.ok THEN NoToast
                ELSE FailedToExecute(handling[i].command, outcome.message)
    /\ composed' = NoCommand
    /\ signal' = NoSignal
    /\ IF outcome.ok THEN UNCHANGED <<commands, selectedIndex>>
       ELSE commands' = <<>> /\ selectedIndex' = 0
    /\ UNCHANGED <<store, searchQuery, loading, inflight, resolved, changes, dispatch, network>>
    /\ CommitHandle

\* ChatInput.executeCommand number i resumes after the `await` of its handler:
\* the catch block toasts the error of a rejected one
CompleteHandler(i, outcome) ==
    /\ i \in 1..Len(handling)
    /\ handling' = [j \in 1..(Len(handling) - 1) |->
                       IF j < i THEN handling[j] ELSE handling[j + 1]]
    /\ toast' = IF outcome.ok THEN NoToast
                ELSE FailedToExecute(handling[i].command, outcome.message)
    /\ composed' = NoCommand
    /\ signal' = NoSignal
    /\ UNCHANGED <<store, searchQuery, commands, loading, selectedIndex, inflight, resolved,
                   changes, handle, dispatch, network>>

\* one loadCommands call, the keys over its list, and ChatInput's executions
NextExecute ==
    \/ \E outcome \in FetchOutcomes : CompleteLoad(1, outcome)
    \/ \E key \in Keys : KeyDownInChatInput(key)
    \/ \E i \in 1..Len(handling), outcome \in CallOutcomes : CompleteHandler(i, outcome)

SpecExecute == Init /\ [][NextExecute]_vars

----------------------------------------------------------------------------
(* opencodeApi: the direct network operations *)

ApiOperations == {"editMessage", "clearSession", "compactSession", "getSessionState"}

\* the body of a response: whether it parses as JSON, and its `message` and
\* `error` fields ("" for an absent one)
Body(parses, message, error) == [parses |-> parses, message |-> message, error |-> error]

Bodies ==
    { Body(TRUE, "Session is busy", "conflict"),
      Body(TRUE, "", "conflict"),
      Body(TRUE, "", ""),
      Body(FALSE, "", "") }

\* what `await fetch(...)` resolves to
Responses ==
    {[ok |-> TRUE, status |-> 200, statusText |-> "OK", body |-> b] : b \in Bodies}
    \cup {[ok |-> FALSE, status |-> 500, statusText |-> "Internal Server Error", body |-> b] :
             b \in Bodies}

\* the error response.json() rejects with when the body is not JSON
JsonSyntaxError == "Unexpected token in JSON"

\* a function that has returned a value, and one that has thrown an error
ReturnedValue(value) == [threw |-> FALSE, message |-> "", value |-> value]
Thrown(message) == [threw |-> TRUE, message |-> message, value |-> Body(FALSE, "", "")]

\* a || b of JavaScript on strings
OrElse(a, b) == IF a # "" THEN a ELSE b

\* response.json()
ResponseJson(response) ==
    IF response.body.parses THEN ReturnedValue(response.body) ELSE Thrown(JsonSyntaxError)

\* a handleApiError that reads the body and returns
HandleApiErrorReturning(response) == ReturnedValue(response.body)

\* the try block of handleApiError: it ends in a throw on every path
HandleApiErrorTry(response) ==
    IF ResponseJson(response).threw THEN ResponseJson(response)
    ELSE Thrown(OrElse(response.body.message,
                       OrElse(response.body.error, "HTTP " \o ToString(response.status))))

\* handleApiError: the catch block takes whatever the try block threw, the
\* Error made from the body included, and throws the status line
HandleApiError(response) ==
    IF HandleApiErrorTry(response).threw
    THEN Thrown("HTTP " \o ToString(response.status) \o ": " \o response.statusText)
    ELSE HandleApiErrorTry(response)

\* the body every operation has after its fetch: handleApiError on a response
\* that is not ok, then `return response.json()`
AfterFetch(response) ==
    IF ~response.ok /\ HandleApiError(response).threw THEN HandleApiError(response)
    ELSE ResponseJson(response)

\* an opencodeApi operation up to its `await fetch(...)`
ApiCall(operation, sid) ==
    /\ Len(requests) + Len(replies) < MaxRequests
    /\ requests' = Append(requests, [id |-> Len(requests) + Len(replies) + 1,
                                     operation |-> operation, sessionId |-> sid])
    /\ UNCHANGED <<replies, store, component, dispatch, chat>>

\* the operation number i resumes with the response of its fetch
ApiRespond(i, response) ==
    /\ i \in 1..Len(requests)
    /\ replies' = Append(replies, [id |-> requests[i].id, operation |-> requests[i].operation,
                                   response |-> response, result |-> AfterFetch(response)])
    /\ requests' = [j \in 1..(Len(requests) - 1) |->
                       IF j < i THEN requests[j] ELSE requests[j + 1]]
    /\ UNCHANGED <<store, component, dispatch, chat>>

NextApi ==
    \/ \E operation \in ApiOperations, sid \in Sessions : ApiCall(operation, sid)
    \/ \E i \in 1..Len(requests), response \in Responses : ApiRespond(i, response)

SpecApi == Init /\ [][NextApi]_vars

----------------------------------------------------------------------------
(* The component: its inputs, the store changes it sees and its loads *)

Next ==
    \/ \E q \in Queries : SetSearchQuery(q)
    \/ \E sid \in Sessions, role \in Roles : AppendMessage(sid, role)
    \/ \E sid \in Sessions : RemoveMessage(sid)
    \/ \E sid \in Sessions, pending \in BOOLEAN : SetRevert(sid, pending)
    \/ \E sid \in Sessions, phase \in Phases : SetActivityPhase(sid, phase)
    \/ \E sid \in Sessions \cup {NoSession} : SetCurrentSession(sid)
    \/ \E i \in 1..Len(inflight), outcome \in FetchOutcomes : CompleteLoad(i, outcome)
    \/ \E key \in Keys : HandleKeyDown(key)
    \/ \E index \in 0..(Len(commands) - 1) : MouseEnter(index)

Spec == Init /\ [][Next]_vars

\* one loadCommands call from its mount to its completion, nothing in between:
\* the resolution as a function of query, session state and fetch outcome
NextResolve == \E outcome \in FetchOutcomes : CompleteLoad(1, outcome)

SpecResolve == Init /\ [][NextResolve]_vars

\* the loads of a mount whose query the parent changes, in any order of completion
NextReload ==
    \/ \E q \in Queries : SetSearchQuery(q)
    \/ \E i \in 1..Len(inflight), outcome \in FetchOutcomes : CompleteLoad(i, outcome)

SpecReload == Init /\ [][NextReload]_vars

\* one loadCommands call, then the selection inputs over its list
NextSelect ==
    \/ \E outcome \in FetchOutcomes : CompleteLoad(1, outcome)
    \/ \E key \in Keys : HandleKeyDown(key)
    \/ \E index \in 0..(Len(commands) - 1) : MouseEnter(index)

SpecSelect == Init /\ [][NextSelect]_vars

\* one loadCommands call, then keys delivered to the handle with the commits
\* of the renders they schedule as steps of their own
NextKeys ==
    \/ \E outcome \in FetchOutcomes : CompleteLoad(1, outcome)
    \/ \E key \in Keys : HandleKeyDownOnHandle(key)
    \/ Commit

SpecKeys == Init /\ [][NextKeys]_vars

----------------------------------------------------------------------------
(* The session-state snapshot and the availability table of the specification *)

SnapshotMessageCount == MessageCount

SnapshotLastMessageRole ==
    IF MessageCount = 0 THEN "none"
    ELSE messages[currentSessionId][Len(messages[currentSessionId])]

SnapshotHasPendingRevert == currentSessionId # NoSession /\ sessions[currentSessionId]

SnapshotActivityPhase ==
    IF currentSessionId # NoSession THEN sessionActivityPhase[currentSessionId] ELSE "idle"

AvailabilityTable(name) ==
    CASE name = "init" -> SnapshotMessageCount = 0
      [] name \in {"summarize", "clear", "compact"} -> SnapshotMessageCount > 0
      [] name \in {"revert", "undo"} -> SnapshotMessageCount > 1
      [] name \in {"unrevert", "redo"} -> SnapshotHasPendingRevert
      [] name = "abort" -> SnapshotActivityPhase = "busy"
      [] name = "edit" -> SnapshotMessageCount > 0 /\ SnapshotLastMessageRole = "user"
      [] OTHER -> TRUE

Indices == 1..Len(commands)
VisibleNames == {commands[i].name : i \in Indices}
VisibleBuiltInNames == {commands[i].name : i \in {j \in Indices : commands[j].isBuiltIn}}

\* the query occurs in the text, case ignored
ContainsIgnoreCase(text, q) == Includes(ToLowerCase(text), ToLowerCase(q))

\* selectedIndex after k ArrowDown keys on a list of `total` commands
RECURSIVE AfterArrowDowns(_, _, _)
AfterArrowDowns(k, index, total) ==
    IF k = 0 THEN index ELSE AfterArrowDowns(k - 1, ArrowDownIndex(index, total), total)

\* the returned calls of executeCommand that reached their delegated call, in
\* the order they returned
IsDispatched(call) == call.dispatched
DispatchedCalls == SelectSeq(calls, IsDispatched)

\* the executeCommand calls so far, suspended or returned, as id and command
StartedCalls ==
    {[id |-> executing[k].id, command |-> executing[k].command] : k \in 1..Len(executing)}
    \cup {[id |-> calls[k].id, command |-> calls[k].command] : k \in 1..Len(calls)}

\* the collaborator operations invoked by the executeCommand call number id
InvokedBy(id) == {k \in 1..Len(backend) : backend[k].by = id}

\* alias and aliased command
Aliases == {<<"undo", "revert">>, <<"redo", "unrevert">>}

\* names of the dynamic catalog the shown list was resolved with
CatalogNames ==
    {resolved.outcome.apiCommands[i].name : i \in 1..Len(resolved.outcome.apiCommands)}

----------------------------------------------------------------------------
(* Claims *)

\* C1: whenever no catalog load is in flight, every built-in command of the
\* visible list is available under the current session state, and confirm
\* emits no built-in command that is unavailable under it.
C1_VisibleBuiltInsAvailable ==
    inflight = <<>> =>
        /\ \A n \in VisibleBuiltInNames : AvailabilityTable(n)
        /\ (signal.type = "select" /\ signal.command.isBuiltIn)
              => AvailabilityTable(signal.command.name)

\* C2: once every overlapping load has completed, the visible list is the list
\* resolved for the latest query and session state: when an older load is the
\* last to complete, the list is still the one the latest render resolves.
C2_LatestLoadWins ==
    (inflight = <<>> /\ resolved.done /\ ~resolved.latest) =>
        commands = LoadResultMemo[Rendered][resolved.outcome][GetState]

\* C3: for every built-in command name and every session state, isAvailable
\* equals the fixed table (init iff no messages; summarize, clear, compact iff
\* messages; revert, undo iff more than one message; unrevert, redo iff a revert
\* is pending; abort iff busy; edit iff messages and the last one is the user's).
C3_AvailabilityTable ==
    \A n \in BuiltInNames : IsCommandAvailable(GetState, Rendered, Cmd(n, "", TRUE)) = AvailabilityTable(n)

\* C3 witness: a resolved list of a busy session with two messages, the last one
\* the user's, and a pending revert: edit, revert, redo and abort pass the gate,
\* init does not.
C3_Witness ==
    /\ resolved.done
    /\ SnapshotMessageCount = 2 /\ SnapshotLastMessageRole = "user"
    /\ SnapshotHasPendingRevert /\ SnapshotActivityPhase = "busy"
    /\ {"edit", "revert", "redo", "abort"} \subseteq VisibleBuiltInNames
    /\ "init" \notin VisibleNames

\* C4: every dynamic command of the fetched catalog that matches the query is in
\* the visible list, whatever its name and the session state.
C4_DynamicAlwaysVisible ==
    (resolved.done /\ resolved.outcome.ok) =>
        \A k \in 1..Len(resolved.outcome.apiCommands) :
            LET api == resolved.outcome.apiCommands[k]
            IN  (searchQuery = "" \/ ContainsIgnoreCase(api.name, searchQuery))
                  => \E i \in Indices : commands[i].name = api.name /\ ~commands[i].isBuiltIn

\* C5 as stated: names of the visible list are pairwise distinct, and for each
\* name the dynamic catalog shares with a built-in the visible list holds exactly
\* one entry with that name, a dynamic one.
C5_ShadowedEntryVisible ==
    (resolved.done /\ resolved.outcome.ok) =>
        /\ \A i, j \in Indices : commands[i].name = commands[j].name => i = j
        /\ \A n \in CatalogNames \cap BuiltInNames :
              /\ Cardinality({i \in Indices : commands[i].name = n}) = 1
              /\ \A i \in Indices : commands[i].name = n => ~commands[i].isBuiltIn

\* C5 amended: names of the visible list are pairwise distinct; for each name the
\* dynamic catalog shares with a built-in (also a name the catalog repeats) the
\* merged catalog holds exactly one entry with that name, a dynamic one, and the
\* visible list holds at most one, a dynamic one.
C5_MergedEntryUnique ==
    (resolved.done /\ resolved.outcome.ok) =>
        LET merged == MergeCommands(BuiltInCommands(HasMessagesInCurrentSession),
                                    CustomCommands(resolved.outcome.apiCommands))
        IN  /\ \A i, j \in Indices : commands[i].name = commands[j].name => i = j
            /\ \A i, j \in 1..Len(merged) : merged[i].name = merged[j].name => i = j
            /\ \A n \in CatalogNames \cap BuiltInNames :
                  /\ Cardinality({i \in 1..Len(merged) : merged[i].name = n}) = 1
                  /\ \A i \in 1..Len(merged) : merged[i].name = n => ~merged[i].isBuiltIn
                  /\ \A i \in Indices : commands[i].name = n => ~commands[i].isBuiltIn

\* C5 witness: a list resolved with a catalog that repeats `init` and shadows
\* `abort`, showing both as dynamic commands.
C5_Witness ==
    /\ resolved.done /\ resolved.outcome.ok
    /\ {"init", "abort"} \subseteq CatalogNames
    /\ {"init", "abort"} \subseteq VisibleNames
    /\ VisibleBuiltInNames # {}

\* C6: every visible list, of a fetch that succeeded or failed, has the commands
\* whose name starts with the query before the others and the names of each
\* group in ascending order.
C6_PrefixThenAlphabetical ==
    resolved.done =>
        \A i, j \in Indices :
            i < j =>
              LET iStarts == StartsWith(ToLowerCase(commands[i].name), ToLowerCase(searchQuery))
                  jStarts == StartsWith(ToLowerCase(commands[j].name), ToLowerCase(searchQuery))
              IN  /\ ~(~iStarts /\ jStarts)
                  /\ (iStarts = jStarts)
                        => LocaleCompare(commands[i].name, commands[j].name) < 0

\* C7: with a non-empty query every visible command has the query in its name or
\* its description, case ignored; with an empty query the query step removes
\* nothing: every built-in that passes the gate and every dynamic command stays
\* (a command named `init` is left to the init step).
C7_QueryFilter ==
    resolved.done =>
        /\ searchQuery # "" =>
              \A i \in Indices :
                  \/ ContainsIgnoreCase(commands[i].name, searchQuery)
                  \/ ContainsIgnoreCase(commands[i].description, searchQuery)
        /\ searchQuery = "" =>
              /\ \A n \in BuiltInNames \ CatalogNames : AvailabilityTable(n) => n \in VisibleNames
              /\ \A n \in CatalogNames :
                    (n # "init" \/ SnapshotMessageCount = 0) => n \in VisibleNames

\* C7 witness: the list of query "Re" in a session with messages: `summarize`
\* stays by its description alone, `unrevert` by its name, `compact` is removed.
C7_Witness ==
    /\ resolved.done /\ searchQuery = "Re"
    /\ SnapshotMessageCount > 0 /\ SnapshotHasPendingRevert
    /\ {"summarize", "unrevert"} \subseteq VisibleNames
    /\ "compact" \notin VisibleNames

\* C8: when the catalog fetch fails the load still completes, and the visible
\* list holds exactly the built-ins that match the query and are available, no
\* dynamic command; with an empty query it is never empty.
C8_FetchFailureFallback ==
    (resolved.done /\ ~resolved.outcome.ok) =>
        /\ ~loading /\ inflight = <<>>
        /\ \A i \in Indices : commands[i].isBuiltIn
        /\ VisibleNames =
              {n \in BuiltInNames :
                  /\ AvailabilityTable(n)
                  /\ \E i \in 1..Len(BuiltInCommands(FALSE)) :
                        LET b == BuiltInCommands(FALSE)[i]
                        IN  /\ b.name = n
                            /\ \/ searchQuery = ""
                               \/ ContainsIgnoreCase(b.name, searchQuery)
                               \/ ContainsIgnoreCase(b.description, searchQuery)}
        /\ searchQuery = "" => commands # <<>>

\* C8 witness: a failed fetch in a session with two messages leaves the five
\* built-ins that need messages at least.
C8_Witness ==
    /\ resolved.done /\ ~resolved.outcome.ok
    /\ searchQuery = "" /\ SnapshotMessageCount = 2
    /\ {"summarize", "revert", "undo", "clear", "compact"} \subseteq VisibleNames

\* C9: with an empty query and no dynamic command shadowing a built-in, the
\* built-ins of the visible list are exactly those whose predicate holds for the
\* session state.
C9_GatingExact ==
    (resolved.done /\ searchQuery = "" /\ CatalogNames \cap BuiltInNames = {}) =>
        VisibleBuiltInNames = {n \in BuiltInNames : AvailabilityTable(n)}

\* C9 witness: two messages, the last one the assistant's: revert and undo are
\* shown, edit and init are not.
C9_Witness ==
    /\ resolved.done /\ searchQuery = "" /\ CatalogNames \cap BuiltInNames = {}
    /\ SnapshotMessageCount = 2 /\ SnapshotLastMessageRole = "assistant"
    /\ {"revert", "undo"} \subseteq VisibleBuiltInNames
    /\ VisibleBuiltInNames \cap {"edit", "init"} = {}

\* C10: on a list of total > 0 commands ArrowDown moves selectedIndex to
\* (selectedIndex + 1) mod total and ArrowUp to (selectedIndex - 1 + total) mod
\* total, wrapping at both ends; on an empty list both change nothing.
C10_NavigationWraps ==
    [][ LET total == Len(commands)
        IN  /\ HandleKeyDown("ArrowDown") =>
                 /\ commands' = commands
                 /\ selectedIndex' = IF total = 0 THEN selectedIndex
                                     ELSE IF selectedIndex = total - 1 THEN 0
                                     ELSE selectedIndex + 1
            /\ HandleKeyDown("ArrowUp") =>
                 /\ commands' = commands
                 /\ selectedIndex' = IF total = 0 THEN selectedIndex
                                     ELSE IF selectedIndex = 0 THEN total - 1
                                     ELSE selectedIndex - 1 ]_vars

\* C10 witness: the last of at least three commands is selected, the index
\* ArrowUp wraps to from the first command and ArrowDown wraps back from.
C10_Witness ==
    /\ Len(commands) >= 3
    /\ selectedIndex = Len(commands) - 1
    /\ signal = NoSignal

C13_ConfirmEmitsSelected ==
    [][ \A key \in {"Enter", "Tab"} :
          (HandleKeyDown(key) /\ commands # <<>>) =>
              LET total == Len(commands)
              IN  /\ signal' = CommandSelected(commands[(selectedIndex % total) + 1])
                  /\ \E i \in Indices : commands[i] = signal'.command
                  /\ commands' = commands
                  /\ \A index \in (0 - 2 * total)..(2 * total) :
                        /\ SafeIndex(index, total) = index % total
                        /\ SafeIndex(index, total) + 1 \in Indices ]_vars

\* C13 witness: the command-selected signal carries the command under the
\* selection, which is not the first one.
C13_Witness ==
    /\ signal.type = "select"
    /\ selectedIndex > 0
    /\ signal.command = commands[selectedIndex + 1]

\* C14: Enter or Tab on an empty visible list emits nothing and leaves
\* selectedIndex and the visible list as they are.
C14_ConfirmOnEmptyIsNoOp ==
    [][ \A key \in {"Enter", "Tab"} :
          (HandleKeyDown(key) /\ commands = <<>>) =>
              /\ signal' = NoSignal
              /\ selectedIndex' = selectedIndex
              /\ commands' = commands ]_vars

\* C14 witness: the state Enter is pressed in and leaves as it is: no command
\* is visible (the first load has not completed) and nothing is emitted.
C14_Witness ==
    /\ commands = <<>> /\ inflight # <<>>
    /\ signal = NoSignal /\ selectedIndex = 0

\* C15: in every state, whether the visible list is empty or not and whether
\* a load is in flight or not, Escape is accepted and its step emits the
\* close-requested signal, never a command-selected one or none, and leaves
\* the selection and the visible list alone.
C15_EscapeEmitsClose ==
    /\ ENABLED (HandleKeyDown("Escape") /\ signal' = CloseRequested)
    /\ ~ENABLED (HandleKeyDown("Escape")
                   /\ (signal' # CloseRequested \/ selectedIndex' # selectedIndex
                          \/ commands' # commands))

\* C15 witness: close was requested while the visible list is empty and the
\* first load is in flight.
C15_Witness ==
    /\ signal = CloseRequested
    /\ commands = <<>> /\ inflight # <<>> /\ loading

\* C16: every call of the dispatcher appends exactly one history entry before
\* it returns, whether it succeeds or fails and whatever makes it fail: the
\* log has one entry for each call that has returned.
C16_OneEntryPerAttempt ==
    Len(commandHistory) = Len(calls)

\* C17: the history log is append-only: every step leaves the log as it was or
\* extends it (the log before the step is a prefix of the log after it), and
\* after N calls of the dispatcher have returned the log has N entries.
C17_HistoryAppendOnly ==
    [][ /\ Len(commandHistory') >= Len(commandHistory)
        /\ SubSeq(commandHistory', 1, Len(commandHistory)) = commandHistory
        /\ Len(commandHistory') = Len(calls') ]_vars

\* C18: executions that reached their delegated call, two that overlap among
\* them, each leave one entry whatever the order of their completions: the log
\* has as many entries as such executions have completed, and for each command
\* name and result as many entries as executions.
C18_OverlappingExecutionsBothRecorded ==
    /\ Len(commandHistory) = Len(DispatchedCalls)
    /\ \A name \in ExecutableNames, ok \in BOOLEAN :
          Cardinality({k \in 1..Len(commandHistory) :
                          commandHistory[k].command = name /\ commandHistory[k].success = ok})
            = Cardinality({k \in 1..Len(DispatchedCalls) :
                              DispatchedCalls[k].command = name /\ DispatchedCalls[k].threw = ~ok})

\* C18 witness: the second execution started while the first was suspended,
\* both have completed, the second one first, and the log has two entries.
C18_Witness ==
    /\ executing = <<>> /\ Len(DispatchedCalls) = 2
    /\ DispatchedCalls[1].others = 1 /\ DispatchedCalls[1].id = 2
    /\ Len(commandHistory) = 2

\* C19: the entries of the log are in the order in which the executions
\* completed: the k-th entry is the entry of the k-th execution to complete,
\* whatever the order in which they started.
C19_HistoryInCompletionOrder ==
    /\ Len(commandHistory) = Len(DispatchedCalls)
    /\ \A k \in 1..Len(DispatchedCalls) :
          /\ k <= Len(commandHistory)
          /\ commandHistory[k].command = DispatchedCalls[k].command
          /\ commandHistory[k].success = ~DispatchedCalls[k].threw
    /\ \A k \in 1..(Len(commandHistory) - 1) :
          commandHistory[k].timestamp <= commandHistory[k + 1].timestamp

\* C19 witness: `revert` started before `unrevert` and completed after it: the
\* entry of `unrevert` precedes the entry of `revert`.
C19_Witness ==
    /\ Len(DispatchedCalls) = 2
    /\ DispatchedCalls[1].id = 2 /\ DispatchedCalls[2].id = 1
    /\ Len(commandHistory) = 2
    /\ commandHistory[1].command = "unrevert" /\ commandHistory[2].command = "revert"

\* C20: an execution whose delegated call fails is recorded with success =
\* false and with the message of the error in its entry, and the caller gets
\* that same message.
C20_FailureMessageRecorded ==
    \A k \in 1..Len(DispatchedCalls) :
        DispatchedCalls[k].threw =>
            /\ k <= Len(commandHistory)
            /\ commandHistory[k].success = FALSE
            /\ DispatchedCalls[k].message \in ErrorMessages
            /\ "errorMessage" \in DOMAIN commandHistory[k]
            /\ commandHistory[k].errorMessage = DispatchedCalls[k].message

C25_NoTargetFailsUninvoked ==
    \A call \in StartedCalls :
        ( /\ call.command \in {"revert", "undo"}
          /\ currentSessionId # NoSession
          /\ GetLastMessageId(GetState, currentSessionId) = NoMessage ) =>
            /\ InvokedBy(call.id) = {}
            /\ \A k \in 1..Len(calls) :
                  calls[k].id = call.id =>
                      /\ calls[k].threw
                      /\ k <= Len(commandHistory)
                      /\ commandHistory[k].command = call.command
                      /\ commandHistory[k].success = FALSE

C28_NoRetry ==
    /\ \A call \in StartedCalls : Cardinality(InvokedBy(call.id)) <= 1
    /\ \A k \in 1..Len(executing) : Cardinality(InvokedBy(executing[k].id)) = 1
    /\ \A k \in 1..Len(DispatchedCalls) : Cardinality(InvokedBy(DispatchedCalls[k].id)) = 1
    /\ Len(backend) <= Attempts

\* C28 witness: two calls have returned, one resolved and one rejected, and
\* two operations were invoked, one by each.
C28_Witness ==
    /\ executing = <<>> /\ Len(calls) = 2
    /\ calls[1].threw /\ calls[1].dispatched
    /\ ~calls[2].threw
    /\ Len(backend) = 2 /\ backend[1].by # backend[2].by

\* C21: a step that selects a dynamic (non-built-in) command, also one named
\* like a built-in, hands it back for manual composition: no execution is
\* started, no toast is raised, no collaborator operation is invoked and no
\* history entry is written.
C21_DynamicNeverExecuted ==
    [][ (signal'.type = "select" /\ ~signal'.command.isBuiltIn) =>
            /\ composed' = signal'.command
            /\ handling' = handling
            /\ toast' = NoToast
            /\ backend' = backend
            /\ commandHistory' = commandHistory ]_vars

\* C22: a step that selects the built-in `init` or `summarize` passes it to the
\* dispatcher like any other built-in: it is not left to the custom command
\* handling, and in an active session its execution is started.
C22_InitSummarizeRouted ==
    [][ ( /\ signal'.type = "select"
          /\ signal'.command.isBuiltIn
          /\ signal'.command.name \in {"init", "summarize"} ) =>
            /\ composed' = NoCommand
            /\ currentSessionId # NoSession =>
                  /\ Len(handling') = Len(handling) + 1
                  /\ handling'[Len(handling')].command = signal'.command.name ]_vars

\* C27: an execution failure is not fatal to the engine. The confirm step and
\* the step in which the execution fails (the one that raises the toast) both
\* leave the query, the visible list and selectedIndex as they were, and in the
\* state after a failure a further confirm is accepted: it selects the
\* highlighted command and, for a command of the dispatcher whose handler does
\* not throw at once, starts a new execution in the active session.
C27_FailureNotFatal ==
    /\ [][ (signal'.type = "select" \/ toast' # NoToast) =>
              /\ searchQuery' = searchQuery
              /\ commands' = commands
              /\ selectedIndex' = selectedIndex ]_vars
    /\ [](( /\ toast # NoToast
            /\ commands # <<>>
            /\ Len(handling) < MaxPending ) =>
              ENABLED ( /\ KeyDownInChatInput("Enter")
                        /\ signal'.type = "select"
                        /\ signal'.command = commands[selectedIndex + 1]
                        /\ ( /\ currentSessionId # NoSession
                             /\ signal'.command.name \in ChatInputBuiltInCommands
                             /\ HandlerThrow(GetState, currentSessionId,
                                             signal'.command.name) = "" ) =>
                               /\ Len(handling') = Len(handling) + 1
                               /\ handling'[Len(handling')].command = signal'.command.name ))

\* a handler was rejected after its await; the list is still shown with a
\* highlighted row other than the first, and no execution is pending
C27_Witness ==
    /\ toast # NoToast
    /\ toast # "No active session"
    /\ signal = NoSignal
    /\ handling = <<>>
    /\ commands # <<>>
    /\ selectedIndex > 0
    /\ commands[selectedIndex + 1].name \in ChatInputBuiltInCommands

\* C29: resolving the visible list is deterministic and free of side effects.
\* In every step in which a load completes, the list it sets is the value of
\* one function of what the load reads (the query and the session values of the
\* render that started it, the catalog the fetch returned, the store at the
\* completion), whatever list, selection or earlier resolution came before; and
\* the step changes neither the store nor the command history.
C29_ResolutionDeterministic ==
    [][ Len(inflight') < Len(inflight) =>
          /\ \E i \in 1..Len(inflight) :
                /\ inflight' = [j \in 1..(Len(inflight) - 1) |->
                                   IF j < i THEN inflight[j] ELSE inflight[j + 1]]
                /\ commands' = LoadResultMemo[inflight[i].cl][resolved'.outcome][GetState]
          /\ store' = store
          /\ commandHistory' = commandHistory ]_vars

\* two resolutions have completed, the second one over a list already shown
C29_Witness ==
    /\ inflight = <<>>
    /\ resolved.done
    /\ ~resolved.latest
    /\ changes > 0
    /\ commands # <<>>

\* C30: the built-in `init` is never in the same visible list as one of the
\* built-ins `summarize`, `clear`, `compact`, also when the message count
\* changes between the start of a catalog load and its completion.
C30_InitExcludesMessageCommands ==
    "init" \in VisibleBuiltInNames =>
        VisibleBuiltInNames \cap {"summarize", "clear", "compact"} = {}

\* C31: confirm emits the command at the index all preceding navigation
\* signals have produced, also when the signals arrive back to back with no
\* re-render in between: the command a step selects is the one at the
\* selectedIndex the navigation so far has led to.
C31_ConfirmAfterNavigation ==
    [][ signal'.type = "select" => signal'.command = commands[selectedIndex + 1] ]_vars

\* C32: the loading flag is true in every state in which at least one catalog
\* load is in flight, also when several loads overlap and one of them completes
\* before the others.
C32_LoadingWhileInFlight ==
    inflight # <<>> => loading

\* C33: a failed catalog fetch yields the same ordered visible list as a
\* successful fetch that returns an empty dynamic catalog, for every query and
\* snapshot.
C33_FailureAsEmptyCatalog ==
    (resolved.done /\ ~resolved.outcome.ok) =>
        commands = LoadResultMemo[Rendered][[ok |-> TRUE, apiCommands |-> <<>>]][GetState]

\* C34: with no active session the message count is taken as 0 and, for an
\* empty query and an empty dynamic catalog, the visible list is exactly [init]:
\* summarize, revert, undo, unrevert, redo, abort, edit, clear and compact are
\* hidden whatever the store holds for its sessions.
C34_NoSessionOnlyInit ==
    currentSessionId = NoSession =>
        /\ MessageCount = 0
        /\ ( /\ resolved.done
             /\ resolved.outcome = [ok |-> TRUE, apiCommands |-> <<>>]
             /\ searchQuery = "" ) =>
               commands = <<Cmd("init", "Create/update AGENTS.md file", TRUE)>>

\* an empty catalog was fetched with no session while the store holds a busy
\* session with messages and a pending revert
C34_Witness ==
    /\ currentSessionId = NoSession
    /\ resolved.done
    /\ resolved.outcome = [ok |-> TRUE, apiCommands |-> <<>>]
    /\ searchQuery = ""
    /\ \E sid \in Sessions :
          /\ Len(messages[sid]) > 1
          /\ sessions[sid]
          /\ sessionActivityPhase[sid] = "busy"
    /\ VisibleNames = {"init"}

\* C35: on a non-empty visible list navigate-up undoes navigate-down and the
\* other way round (after an ArrowDown step the ArrowUp updater leads back to
\* the index before the step, after an ArrowUp step the ArrowDown updater
\* does), and `total` consecutive ArrowDown keys lead back to the starting
\* selectedIndex.
C35_NavigationInverse ==
    /\ [][ commands # <<>> =>
              /\ HandleKeyDown("ArrowDown") =>
                    ArrowUpIndex(selectedIndex', Len(commands')) = selectedIndex
              /\ HandleKeyDown("ArrowUp") =>
                    ArrowDownIndex(selectedIndex', Len(commands')) = selectedIndex ]_vars
    /\ [](commands # <<>> =>
              AfterArrowDowns(Len(commands), selectedIndex, Len(commands)) = selectedIndex)

\* the last of at least three commands is selected: ArrowDown wraps from it to
\* the first and ArrowUp wraps back
C35_Witness ==
    /\ Len(commands) >= 3
    /\ selectedIndex = Len(commands) - 1
    /\ selectedIndex = ArrowUpIndex(ArrowDownIndex(selectedIndex, Len(commands)), Len(commands))
    /\ ArrowDownIndex(selectedIndex, Len(commands)) = 0

\* C36: input signals have disjoint effects. No key changes the visible list,
\* the query, the loading flag or the store; ArrowUp and ArrowDown emit nothing;
\* Enter and Tab leave selectedIndex as it is; a key other than Escape, ArrowUp,
\* ArrowDown, Enter and Tab changes nothing and emits nothing.
C36_KeysHaveDisjointEffects ==
    [][ \A key \in Keys :
          HandleKeyDown(key) =>
              /\ commands' = commands
              /\ searchQuery' = searchQuery
              /\ loading' = loading
              /\ store' = store
              /\ key \in {"ArrowUp", "ArrowDown"} => signal' = NoSignal
              /\ key \in {"Enter", "Tab"} => selectedIndex' = selectedIndex
              /\ key \notin {"Escape", "ArrowUp", "ArrowDown", "Enter", "Tab"} =>
                    (selectedIndex' = selectedIndex /\ signal' = NoSignal) ]_vars

\* a confirm on the last of several commands: the selection is still on it
C36_Witness ==
    /\ signal.type = "select"
    /\ Len(commands) >= 2
    /\ selectedIndex = Len(commands) - 1
    /\ signal.command = commands[Len(commands)]

\* C37: each direct network operation returns a value only when the response
\* is OK; on a response that is not OK it throws and does not return the
\* response body as its value, whether or not the error body is valid JSON.
C37_NonOkAlwaysThrows ==
    \A k \in 1..Len(replies) :
        LET response == replies[k].response
            result == replies[k].result
        IN  /\ ~result.threw => (response.ok /\ result.value = response.body)
            /\ ~response.ok => (result.threw /\ result # ReturnedValue(response.body))

\* an operation has thrown on a response that is not OK and whose body is not
\* JSON
C37_Witness ==
    \E k \in 1..Len(replies) :
        /\ replies[k].operation \in ApiOperations
        /\ ~replies[k].response.ok
        /\ ~replies[k].response.body.parses
        /\ replies[k].result.threw

\* C23: when a direct network call gets a response that is not ok and whose
\* JSON body carries a `message` (or `error`) field, the error the operation
\* throws carries that message; the `HTTP <status>: <statusText>` text is used
\* only when the body cannot be parsed.
C23_ServerMessageThrown ==
    \A k \in 1..Len(replies) :
        LET response == replies[k].response
            result == replies[k].result
        IN  (~response.ok /\ response.body.parses) =>
                /\ result.threw
                /\ response.body.message # "" => result.message = response.body.message
                /\ (response.body.message = "" /\ response.body.error # "")
                      => result.message = response.body.error

====
